---- MODULE Spec2Model ----
(***************************************************************************)
(* A model of pelican_bibtex.add_publications (src/pelican_bibtex.py).     *)
(*                                                                         *)
(* Text (Python str) is a sequence of one-character strings, so that       *)
(* str.replace, str.split, str.strip and int() are computed character by   *)
(* character.  The value None is the one-element sequence <<"None">>,      *)
(* which no text equals because its element is not a single character.     *)
(*                                                                         *)
(* One invocation of add_publications is a run of the state machine:       *)
(*   start -> import -> loop -> entries -> loop ... -> returned / raised   *)
(***************************************************************************)
EXTENDS Integers, Sequences, FiniteSets

VARIABLES
    settings,       \* generator.settings: [hasPubs, hasNavbar, navbar, refs]
    disk,           \* rid -> what Parser().parse_file finds: [ok, entries]
    pybtex,         \* whether the pybtex imports succeed
    context,        \* generator.context: a mapping key -> value
    log,            \* the logger.warn calls made so far
    pc,             \* position in add_publications
    idx,            \* position of the `for rid in refs` loop
    opts,           \* title, header, ..., highlights, group_type of this source
    bibdata_all,    \* the parsed entry set of this source (mutable)
    pos,            \* position of the `for formatted_entry` loop
    publications,   \* the local list `publications`
    rendered_from   \* <<rid, key>> -> field names the formatter was given

vars == <<settings, disk, pybtex, context, log, pc, idx, opts, bibdata_all,
          pos, publications, rendered_from>>

----------------------------------------------------------------------------
\* Text helpers

None == <<"None">>

\* The characters of the model in code-point order.
Ascii == <<" ", "+", "-", ".", "/", "0", "1", "2", "3", "4", "5", "6", "7",
           "8", "9", ";", "<", ">", "a", "b", "c", "d", "e", "g", "i", "k",
           "l", "n", "o", "p", "r", "s", "t", "u", "v", "w">>

CharCode(c) == CHOOSE i \in 1..Len(Ascii) : Ascii[i] = c

Digits == <<"0", "1", "2", "3", "4", "5", "6", "7", "8", "9">>

DigitVal(c) == (CHOOSE i \in 1..10 : Digits[i] = c) - 1

IsDigit(c) == \E i \in 1..10 : Digits[i] = c

\* s[i..] starts with p
StartsAt(s, i, p) ==
    /\ i + Len(p) - 1 <= Len(s)
    /\ \A j \in 1..Len(p) : s[i + j - 1] = p[j]

RECURSIVE Interleave(_, _, _)
Interleave(s, new, i) ==
    IF i > Len(s) THEN new
    ELSE new \o <<s[i]>> \o Interleave(s, new, i + 1)

RECURSIVE ReplaceFrom(_, _, _, _)
ReplaceFrom(s, old, new, i) ==
    IF i > Len(s) THEN <<>>
    ELSE IF StartsAt(s, i, old)
         THEN new \o ReplaceFrom(s, old, new, i + Len(old))
         ELSE <<s[i]>> \o ReplaceFrom(s, old, new, i + 1)

\* str.replace(old, new, 1): the first occurrence only
ReplaceFirst(s, old, new) ==
    IF \E i \in 1..Len(s) : StartsAt(s, i, old)
    THEN LET i == CHOOSE k \in 1..Len(s) :
                      StartsAt(s, k, old) /\ \A j \in 1..(k - 1) : ~StartsAt(s, j, old)
         IN  SubSeq(s, 1, i - 1) \o new \o SubSeq(s, i + Len(old), Len(s))
    ELSE s

\* str.replace(old, new): every non-overlapping occurrence, left to right
Replace(s, old, new) ==
    IF old = <<>> THEN Interleave(s, new, 1) ELSE ReplaceFrom(s, old, new, 1)

RECURSIVE LStrip(_)
LStrip(s) == IF s # <<>> /\ Head(s) = " " THEN LStrip(Tail(s)) ELSE s

RECURSIVE RStrip(_)
RStrip(s) ==
    IF s # <<>> /\ s[Len(s)] = " " THEN RStrip(SubSeq(s, 1, Len(s) - 1)) ELSE s

\* str.strip()
Strip(s) == RStrip(LStrip(s))

RECURSIVE SplitFrom(_, _, _, _)
SplitFrom(s, sep, i, piece) ==
    IF i > Len(s) THEN <<piece>>
    ELSE IF s[i] = sep
         THEN <<piece>> \o SplitFrom(s, sep, i + 1, <<>>)
         ELSE SplitFrom(s, sep, i + 1, Append(piece, s[i]))

\* str.split(sep) for a one-character separator
Split(s, sep) == SplitFrom(s, sep, 1, <<>>)

\* [tag.strip() for tag in value.split(';')], [] when the field is absent or empty
TagList(value) ==
    IF value = None \/ value = <<>> THEN <<>>
    ELSE LET parts == Split(value, ";")
         IN  [i \in 1..Len(parts) |-> Strip(parts[i])]

RECURSIVE DecimalValue(_)
DecimalValue(s) ==
    IF s = <<>> THEN 0
    ELSE 10 * DecimalValue(SubSeq(s, 1, Len(s) - 1)) + DigitVal(s[Len(s)])

Unsigned(s) ==
    LET t == Strip(s)
    IN  IF t # <<>> /\ t[1] \in {"+", "-"} THEN Tail(t) ELSE t

\* whether int(s) returns (rather than raising ValueError)
IntParses(s) ==
    /\ Unsigned(s) # <<>>
    /\ \A i \in 1..Len(Unsigned(s)) : IsDigit(Unsigned(s)[i])

\* int(s)
IntOf(s) ==
    LET t == Strip(s)
    IN  IF t[1] = "-" THEN 0 - DecimalValue(Unsigned(s))
        ELSE DecimalValue(Unsigned(s))

\* a < b for Python strings
RECURSIVE StrLess(_, _)
StrLess(a, b) ==
    IF b = <<>> THEN FALSE
    ELSE IF a = <<>> THEN TRUE
    ELSE IF a[1] # b[1] THEN CharCode(a[1]) < CharCode(b[1])
    ELSE StrLess(Tail(a), Tail(b))

----------------------------------------------------------------------------
\* Entries

\* dict.get(name, None)
Get(fields, name) == IF name \in DOMAIN fields THEN fields[name] ELSE None

\* fields after fields.pop(name, None) for every name of names
Pop(fields, names) == [f \in (DOMAIN fields) \ names |-> fields[f]]

InPress == <<"i", "n", " ", "p", "r", "e", "s", "s">>
UnderReview == <<"u", "n", "d", "e", "r", " ", "r", "e", "v", "i", "e", "w">>
InPressYear == <<"9", "9", "0", "0">>
UnderReviewYear == <<"9", "9", "0", "1">>
DoiOpen == <<"d", "o", "i", "-", "o", "p", "e", "n">>
UrlOpen == <<"u", "r", "l", "-", "o", "p", "e", "n">>
StrongOpen == <<"<", "s", "t", "r", "o", "n", "g", ">">>
StrongClose == <<"<", "/", "s", "t", "r", "o", "n", "g", ">">>

\* the list of line 168 without 'tags'
BibtexStripNoTags == {"pdf", "slides", "poster", "supplements"}

\* the names removed before the entry is written as bibtex
BibtexStrip == {"pdf", "slides", "poster", "tags", "supplements"}

\* the names removed, in addition, before the entry is formatted
WebStrip == {"doi", "url"}

\* Writer().write_stream: the bibtex text holds the key, the type and every field
WriteBibtex(entry) == [key |-> entry.key, type |-> entry.type, fields |-> entry.fields]

\* plain.Style + html.Backend: the citation text shows the title, the year and
\* the web references (url, doi) the entry has when it is formatted
Render(entry) ==
    LET part(name) == IF name \in DOMAIN entry.fields
                      THEN entry.fields[name] \o <<".">> ELSE <<>>
    IN  part("title") \o part("year") \o part("url") \o part("doi")

RECURSIVE HighlightFrom(_, _, _)
HighlightFrom(text, highlights, i) ==
    IF i > Len(highlights) THEN text
    ELSE HighlightFrom(
             Replace(text, highlights[i], StrongOpen \o highlights[i] \o StrongClose),
             highlights, i + 1)

\* for replace in highlights: text = text.replace(replace, '<strong>'+replace+'</strong>')
Highlight(text, highlights) == HighlightFrom(text, highlights, 1)

\* x for x in tags if x != "doi-open" and x != "url-open"
DisplayTags(tags) == SelectSeq(tags, LAMBDA x : x # DoiOpen /\ x # UrlOpen)

----------------------------------------------------------------------------
\* Sorting

\* pub[2].replace("in press", "9900").replace("under review", "9901")
YearText(pub) == Replace(Replace(pub.year, InPress, InPressYear), UnderReview, UnderReviewYear)

\* whether the sort key of pub can be computed: None has no replace, int() may raise
KeyComputes(pub) == pub.year # None /\ IntParses(YearText(pub))

NegYear(pub) == 0 - IntOf(YearText(pub))

\* the key with the type before the year: (type, -year)
KeyLessTypeFirst(a, b, group_type) ==
    IF group_type
    THEN StrLess(a.type, b.type) \/ (a.type = b.type /\ NegYear(a) < NegYear(b))
    ELSE NegYear(a) < NegYear(b)

\* the key without int(): the year text, compared as text
KeyLessByText(a, b, group_type) ==
    IF group_type
    THEN StrLess(b.year, a.year) \/ (a.year = b.year /\ StrLess(a.type, b.type))
    ELSE StrLess(b.year, a.year)

\* key(a) < key(b): the key is (-year, type) with group_type, -year without
KeyLess(a, b, group_type) ==
    IF group_type
    THEN NegYear(a) < NegYear(b) \/ (NegYear(a) = NegYear(b) /\ StrLess(a.type, b.type))
    ELSE NegYear(a) < NegYear(b)

\* x placed after every element whose key is not greater (the sort is stable)
RECURSIVE InsertSorted(_, _, _)
InsertSorted(s, x, group_type) ==
    IF s = <<>> THEN <<x>>
    ELSE IF KeyLess(x, s[Len(s)], group_type)
         THEN Append(InsertSorted(SubSeq(s, 1, Len(s) - 1), x, group_type), s[Len(s)])
         ELSE Append(s, x)

\* sorted(pubs, key=...)
RECURSIVE SortedPubs(_, _)
SortedPubs(pubs, group_type) ==
    IF pubs = <<>> THEN <<>>
    ELSE InsertSorted(SortedPubs(SubSeq(pubs, 1, Len(pubs) - 1), group_type),
                      pubs[Len(pubs)], group_type)

----------------------------------------------------------------------------
\* Settings, paths and the context

\* mapping with mapping[key] = value set
SetKey(mapping, key, value) ==
    [k \in (DOMAIN mapping) \cup {key} |-> IF k = key THEN value ELSE mapping[k]]

\* os.path.join(a, b)
PathJoin(a, b) ==
    IF b # <<>> /\ b[1] = "/" THEN b
    ELSE IF a = <<>> \/ a[Len(a)] = "/" THEN a \o b
    ELSE a \o <<"/">> \o b

\* os.path.basename(path)
Basename(path) == LET parts == Split(path, "/") IN parts[Len(parts)]

\* the context the host hands over: its own keys and a copy of the settings'
\* display flags, so PUBLICATIONS_NAVBAR is in it exactly when it is configured
InitialContext(s) ==
    IF s.hasNavbar
    THEN [k \in {"SITENAME", "PUBLICATIONS_NAVBAR"} |->
             IF k = "SITENAME" THEN <<"s">> ELSE s.navbar]
    ELSE [k \in {"SITENAME"} |-> <<"s">>]

\* header off unless configured
DefaultHeaderOff == FALSE

\* the defaults of the per-source options
DefaultHeader == TRUE
DefaultSplit == TRUE
DefaultSplitLink == TRUE
DefaultBottomLink == TRUE
DefaultAllBibtex == FALSE
DefaultHighlights == <<>>
DefaultGroupType == FALSE

\* ref[name] if name in ref, else the default
OptionOr(ref, name, default) ==
    IF name \in DOMAIN ref.opts THEN ref.opts[name] ELSE default

\* lines 92-130: the options of one source, resolved
ResolveOptions(ref) ==
    [title       |-> OptionOr(ref, "title", ref.rid),
     header      |-> OptionOr(ref, "header", DefaultHeader),
     split       |-> OptionOr(ref, "split", DefaultSplit),
     split_link  |-> OptionOr(ref, "split_link", DefaultSplitLink),
     bottom_link |-> OptionOr(ref, "bottom_link", DefaultBottomLink),
     all_bibtex  |-> OptionOr(ref, "all_bibtex", DefaultAllBibtex),
     highlights  |-> OptionOr(ref, "highlight", DefaultHighlights),
     group_type  |-> OptionOr(ref, "group_type", DefaultGroupType)]

NoOptions ==
    [title |-> None, header |-> TRUE, split |-> TRUE, split_link |-> TRUE,
     bottom_link |-> TRUE, all_bibtex |-> FALSE, highlights |-> <<>>,
     group_type |-> FALSE]

ParseWarning == "failed to parse file"
ImportWarning == "failed to load dependency pybtex"

\* the source the loop is at, and its bibfile
ThisRef == settings.refs[idx]
Bibfile == PathJoin(settings.path, ThisRef.file)

----------------------------------------------------------------------------
\* add_publications, step by step

\* lines 59-62, with the default of the navbar flag set before the test for
\* PUBLICATIONS
CheckSettingsNavbarFirst ==
    /\ pc = "start"
    /\ context' = IF settings.hasNavbar THEN context
                  ELSE SetKey(context, "PUBLICATIONS_NAVBAR", TRUE)
    /\ pc' = IF settings.hasPubs THEN "import" ELSE "returned"
    /\ UNCHANGED <<settings, disk, pybtex, log, idx, opts, bibdata_all, pos,
                   publications, rendered_from>>

\* lines 59-62
CheckSettings ==
    /\ pc = "start"
    /\ \/ /\ ~settings.hasPubs
          /\ pc' = "returned"
          /\ UNCHANGED context
       \/ /\ settings.hasPubs
          /\ context' = IF settings.hasNavbar THEN context
                        ELSE SetKey(context, "PUBLICATIONS_NAVBAR", TRUE)
          /\ pc' = "import"
    /\ UNCHANGED <<settings, disk, pybtex, log, idx, opts, bibdata_all, pos,
                   publications, rendered_from>>

\* lines 64-79: the imports, then the empty 'publications' mapping
ImportDependencies ==
    /\ pc = "import"
    /\ \/ /\ ~pybtex
          /\ log' = Append(log, ImportWarning)
          /\ pc' = "returned"
          /\ UNCHANGED context
       \/ /\ pybtex
          /\ context' = SetKey(context, "publications", <<>>)
          /\ pc' = "loop"
          /\ UNCHANGED log
    /\ UNCHANGED <<settings, disk, pybtex, idx, opts, bibdata_all, pos,
                   publications, rendered_from>>

\* lines 81-137 with the loop going on after a file that does not parse
BeginSourceSkipBad ==
    /\ pc = "loop"
    /\ idx <= Len(settings.refs)
    /\ \/ /\ ~disk[ThisRef.rid].ok
          /\ log' = Append(log, ParseWarning)
          /\ idx' = idx + 1
          /\ UNCHANGED <<pc, opts, bibdata_all, pos, publications>>
       \/ /\ disk[ThisRef.rid].ok
          /\ bibdata_all' = disk[ThisRef.rid].entries
          /\ opts' = ResolveOptions(ThisRef)
          /\ publications' = <<>>
          /\ pos' = 1
          /\ pc' = "entries"
          /\ UNCHANGED <<log, idx>>
    /\ UNCHANGED <<settings, disk, pybtex, context, rendered_from>>

\* lines 81-137: parse the file of the next source (a file that does not parse
\* ends the invocation), resolve its options, start its list
BeginSource ==
    /\ pc = "loop"
    /\ idx <= Len(settings.refs)
    /\ \/ /\ ~disk[ThisRef.rid].ok
          /\ log' = Append(log, ParseWarning)
          /\ pc' = "returned"
          /\ UNCHANGED <<opts, bibdata_all, pos, publications>>
       \/ /\ disk[ThisRef.rid].ok
          /\ bibdata_all' = disk[ThisRef.rid].entries
          /\ opts' = ResolveOptions(ThisRef)
          /\ publications' = <<>>
          /\ pos' = 1
          /\ pc' = "entries"
          /\ UNCHANGED log
    /\ UNCHANGED <<settings, disk, pybtex, context, idx, rendered_from>>

\* line 81: no source is left
EndSources ==
    /\ pc = "loop"
    /\ idx > Len(settings.refs)
    /\ pc' = "returned"
    /\ UNCHANGED <<settings, disk, pybtex, context, log, idx, opts, bibdata_all,
                   pos, publications, rendered_from>>

\* lines 139-199: one entry becomes one record.  entry_tmp is the entry itself,
\* so the fields are removed from the entry of bibdata_all.
TransformEntry ==
    /\ pc = "entries"
    /\ pos <= Len(bibdata_all)
    /\ LET entry    == bibdata_all[pos]
           tags     == TagList(Get(entry.fields, "tags"))
           written  == [entry EXCEPT !.fields = Pop(entry.fields, BibtexStrip)]
           cleaned  == [written EXCEPT !.fields = Pop(written.fields, WebStrip)]
       IN  /\ publications' = Append(publications,
                  [key          |-> entry.key,
                   type         |-> entry.type,
                   year         |-> Get(entry.fields, "year"),
                   text         |-> Highlight(Render(cleaned), opts.highlights),
                   tags         |-> tags,
                   display_tags |-> DisplayTags(tags),
                   supplements  |-> TagList(Get(entry.fields, "supplements")),
                   bibtex       |-> WriteBibtex(written),
                   pdf          |-> Get(entry.fields, "pdf"),
                   slides       |-> Get(entry.fields, "slides"),
                   poster       |-> Get(entry.fields, "poster"),
                   doi          |-> Get(entry.fields, "doi"),
                   url          |-> Get(entry.fields, "url")])
           /\ bibdata_all' = [bibdata_all EXCEPT ![pos] = cleaned]
           /\ rendered_from' = SetKey(rendered_from, <<ThisRef.rid, entry.key>>,
                                      DOMAIN cleaned.fields)
    /\ pos' = pos + 1
    /\ UNCHANGED <<settings, disk, pybtex, context, log, pc, idx, opts>>

\* the dict of lines 201-209, with its 'data' set
SourceEntry(data) ==
    [title       |-> opts.title,
     path        |-> Basename(Bibfile),
     header      |-> opts.header,
     split       |-> opts.split,
     bottom_link |-> opts.bottom_link,
     split_link  |-> opts.split_link,
     all_bibtex  |-> opts.all_bibtex,
     data        |-> data]

\* lines 201-226: the entry of this source is put in the context, its records
\* sorted; a year that has no sort key raises out of sorted(), after line 209
Publish ==
    /\ pc = "entries"
    /\ pos > Len(bibdata_all)
    /\ \/ /\ \A i \in 1..Len(publications) : KeyComputes(publications[i])
          /\ context' = SetKey(context, "publications",
                 SetKey(context["publications"], ThisRef.rid,
                        SourceEntry(SortedPubs(publications, opts.group_type))))
          /\ idx' = idx + 1
          /\ pc' = "loop"
       \/ /\ \E i \in 1..Len(publications) : ~KeyComputes(publications[i])
          /\ context' = SetKey(context, "publications",
                 SetKey(context["publications"], ThisRef.rid, SourceEntry(<<>>)))
          /\ pc' = "raised"
          /\ UNCHANGED idx
    /\ UNCHANGED <<settings, disk, pybtex, log, opts, bibdata_all, pos,
                   publications, rendered_from>>

Next ==
    \/ CheckSettings
    \/ ImportDependencies
    \/ BeginSource
    \/ EndSources
    \/ TransformEntry
    \/ Publish

----------------------------------------------------------------------------
\* Inputs

\* the state when add_publications is called with settings s, files d and the
\* pybtex imports succeeding or not
Start(s, d, p) ==
    /\ settings = s
    /\ disk = d
    /\ pybtex = p
    /\ context = InitialContext(s)
    /\ log = <<>>
    /\ pc = "start"
    /\ idx = 1
    /\ opts = NoOptions
    /\ bibdata_all = <<>>
    /\ pos = 1
    /\ publications = <<>>
    /\ rendered_from = <<>>

RidOf(i) == <<"r", Digits[i + 1]>>
KeyOf(i) == <<"k", Digits[i + 1]>>

Article == <<"a", "r", "t", "i", "c", "l", "e">>
Book == <<"b", "o", "o", "k">>
Y2019 == <<"2", "0", "1", "9">>
Y2021 == <<"2", "0", "2", "1">>
Y905 == <<"9", "0", "5">>
NoDate == <<"n", ".", "d", ".">>

\* the fields of an entry with this title and year text (None: no year)
TitleYear(title, year) ==
    IF year = None THEN [f \in {"title"} |-> title]
    ELSE [f \in {"title", "year"} |-> IF f = "title" THEN title ELSE year]

\* files of at most n entries, each of one of the kinds [type, fields], with
\* keys k1, k2, ...; and the file that does not parse
FilesOf(kinds, n) ==
    {[ok |-> FALSE, entries |-> <<>>]} \cup
    UNION {{[ok |-> TRUE,
             entries |-> [i \in 1..m |->
                 [key |-> KeyOf(i), type |-> ks[i].type, fields |-> ks[i].fields]]]
            : ks \in [1..m -> kinds]} : m \in 0..n}

\* PUBLICATIONS with n sources r1..rn, each with options of optsets
RefsOf(n, optsets) ==
    {[i \in 1..n |-> [rid |-> RidOf(i), file |-> <<"b", "/">> \o RidOf(i), opts |-> os[i]]]
     : os \in [1..n -> optsets]}

\* settings without PUBLICATIONS, with and without PUBLICATIONS_NAVBAR
SettingsWithoutPublications ==
    {[hasPubs |-> FALSE, hasNavbar |-> b[1], navbar |-> b[1] /\ b[2],
      path |-> <<"c">>, refs |-> <<>>] : b \in BOOLEAN \X BOOLEAN}

\* settings with PUBLICATIONS = refs
SettingsWith(refs) ==
    {[hasPubs |-> TRUE, hasNavbar |-> b[1], navbar |-> b[1] /\ b[2],
      path |-> <<"c">>, refs |-> refs] : b \in BOOLEAN \X BOOLEAN}

MaxSources == 2
MaxEntries == 2

BaseKinds ==
    {[type |-> Article, fields |-> TitleYear(<<"a">>, Y2019)],
     [type |-> Book, fields |-> TitleYear(<<"b">>, NoDate)]}

BaseOptions == {<<>>}

Init ==
    \/ \E s \in SettingsWithoutPublications, p \in BOOLEAN : Start(s, <<>>, p)
    \/ \E n \in 0..MaxSources, p \in BOOLEAN :
          \E refs \in RefsOf(n, BaseOptions) :
             \E s \in SettingsWith(refs) :
                \E d \in [{RidOf(i) : i \in 1..n} -> FilesOf(BaseKinds, MaxEntries)] :
                   Start(s, d, p)

Spec == Init /\ [][Next]_vars

\* The invocations that end early: no PUBLICATIONS, pybtex missing, a file that
\* does not parse, a year without a sort key.  Every specification below starts
\* from these and from the inputs of its own subject.
InitEarlyEnd ==
    \/ \E s \in SettingsWithoutPublications : Start(s, <<>>, TRUE)
    \/ \E p \in BOOLEAN, f \in FilesOf(BaseKinds, 1) :
          \E refs \in RefsOf(1, BaseOptions) :
             \E s \in SettingsWith(refs) :
                Start(s, [r \in {RidOf(1)} |-> f], p)

\* one source with these options and this file, pybtex present, no navbar flag
StartOne(options, file) ==
    Start([hasPubs |-> TRUE, hasNavbar |-> FALSE, navbar |-> FALSE, path |-> <<"c">>,
           refs |-> <<[rid |-> RidOf(1), file |-> <<"b", "/">> \o RidOf(1),
                       opts |-> options]>>],
          [r \in {RidOf(1)} |-> file], TRUE)

\* the union of two mappings with disjoint domains
Merge(f, g) == [n \in (DOMAIN f) \cup (DOMAIN g) |-> IF n \in DOMAIN f THEN f[n] ELSE g[n]]

\* every mapping that gives some of the names of valuesOf a value of its set
RECURSIVE Typed(_)
Typed(valuesOf) ==
    IF DOMAIN valuesOf = {} THEN {<<>>}
    ELSE LET n    == CHOOSE x \in DOMAIN valuesOf : TRUE
             rest == Typed([m \in (DOMAIN valuesOf) \ {n} |-> valuesOf[m]])
         IN  rest \cup {Merge(r, [x \in {n} |-> v]) : r \in rest, v \in valuesOf[n]}

----------------------------------------------------------------------------
\* Options: one source, two entries of the same year, every combination of
\* the optional settings absent or present

OptionValues ==
    [header      |-> BOOLEAN,
     split       |-> BOOLEAN,
     split_link  |-> BOOLEAN,
     bottom_link |-> BOOLEAN,
     all_bibtex  |-> BOOLEAN,
     group_type  |-> BOOLEAN]

TextOptionValues ==
    {<<>>,
     [n \in {"title"} |-> <<"t">>],
     [n \in {"highlight"} |-> <<>>],
     [n \in {"highlight"} |-> << <<"a">> >>],
     [n \in {"title", "highlight"} |-> IF n = "title" THEN <<"t">> ELSE << <<"a">> >>]}

OptionsFile ==
    [ok |-> TRUE,
     entries |-> <<[key |-> KeyOf(1), type |-> Book, fields |-> TitleYear(<<"b", "a">>, Y2019)],
                   [key |-> KeyOf(2), type |-> Article, fields |-> TitleYear(<<"a">>, Y2019)]>>]

InitOptions ==
    \/ InitEarlyEnd
    \/ \E flags \in Typed(OptionValues), texts \in TextOptionValues :
          StartOne(Merge(flags, texts), OptionsFile)

SpecOptions == InitOptions /\ [][Next]_vars

----------------------------------------------------------------------------
\* Sorting: one source, group_type absent, on or off, files of entries of
\* either type whose year is concrete, "in press" or "under review"

SortMaxEntries == 3

SortKinds ==
    {[type |-> t, fields |-> TitleYear(<<"a">>, y)]
     : t \in {Article, Book}, y \in {Y2019, Y2021, Y905, InPress, UnderReview}}

SortOptions ==
    {<<>>, [n \in {"group_type"} |-> TRUE], [n \in {"group_type"} |-> FALSE]}

InitSort ==
    \/ InitEarlyEnd
    \/ \E o \in SortOptions, f \in FilesOf(SortKinds, SortMaxEntries) : StartOne(o, f)

SpecSort == InitSort /\ [][Next]_vars

----------------------------------------------------------------------------
\* Fields: one source, files of entries with any of the optional fields

FieldsMaxEntries == 1

FieldValues ==
    [pdf         |-> {<<"p">>},
     slides      |-> {<<"s">>},
     poster      |-> {<<"o">>},
     doi         |-> {<<"d">>},
     url         |-> {<<"u">>},
     tags        |-> {<<" ", "a", ";">> \o DoiOpen \o <<" ">>},
     supplements |-> {<<"c", ";", " ", "d">>}]

FieldKinds ==
    {[type |-> Article, fields |-> Merge(TitleYear(<<"a">>, Y2019), extra)]
     : extra \in Typed(FieldValues)}

InitFields ==
    \/ InitEarlyEnd
    \/ \E f \in FilesOf(FieldKinds, FieldsMaxEntries) : StartOne(<<>>, f)

SpecFields == InitFields /\ [][Next]_vars

----------------------------------------------------------------------------
\* Highlighting: one source with one entry, titles over a, b and g (a character
\* of the markup), lists of highlight terms that overlap and contain one another

MaxTextLen == 3
MaxTerms == 2

TitleChars == {"a", "b", "g"}

Titles == UNION {[1..n -> TitleChars] : n \in 0..MaxTextLen}

Terms == {<<"a">>, <<"b">>, <<"g">>, <<"a", "a">>, <<"a", "b">>}

TermLists == UNION {[1..n -> Terms] : n \in 0..MaxTerms}

InitHighlight ==
    \/ InitEarlyEnd
    \/ \E t \in Titles, hs \in TermLists :
          StartOne([n \in {"highlight"} |-> hs],
                   [ok |-> TRUE,
                    entries |-> <<[key |-> KeyOf(1), type |-> Article,
                                   fields |-> TitleYear(t, Y2019)]>>])

SpecHighlight == InitHighlight /\ [][Next]_vars

----------------------------------------------------------------------------
\* What the claims speak of

Returned == pc = "returned"

\* the 'publications' mapping of the context, empty when the key is absent
Published ==
    IF "publications" \in DOMAIN context THEN context["publications"] ELSE <<>>

ParseFailed == \E i \in 1..Len(log) : log[i] = ParseWarning

\* the configuration of source rid
RefOf(rid) == settings.refs[CHOOSE i \in 1..Len(settings.refs) : settings.refs[i].rid = rid]

\* the entry with this key in the file of source rid, as parsed
Parsed(rid, key) ==
    LET es == disk[rid].entries
    IN  es[CHOOSE i \in 1..Len(es) : es[i].key = key]

\* the position of this key in the file of source rid
PlaceOf(rid, key) ==
    LET es == disk[rid].entries
    IN  CHOOSE i \in 1..Len(es) : es[i].key = key

\* every source up to the i-th has a file that parses
ParsesUpTo(i) == \A j \in 1..i : disk[settings.refs[j].rid].ok

\* C1: if a source's file fails to parse, exactly one warning is logged and,
\* when the invocation returns, no source identifier has an entry in the
\* context (no partial context), the sources before the failing one included.
C1_ParseFailureLeavesNoEntry ==
    (Returned /\ ParseFailed) =>
        /\ Len(log) = 1
        /\ DOMAIN Published = {}

\* C2: without the PUBLICATIONS key the context is left exactly as it was (no
\* key added, none changed) and nothing is logged.
C2_NoPublicationsKeyNoEffect ==
    (Returned /\ ~settings.hasPubs) =>
        /\ context = InitialContext(settings)
        /\ log = <<>>

\* C2 witness: an invocation without PUBLICATIONS and without
\* PUBLICATIONS_NAVBAR has returned.
C2_Witness == Returned /\ ~settings.hasPubs /\ ~settings.hasNavbar

\* C3: when pybtex cannot be imported and PUBLICATIONS is configured, exactly
\* one warning is logged and the context after the call equals the context
\* before it, with or without PUBLICATIONS_NAVBAR in the settings.
C3_ImportFailureLeavesContext ==
    (Returned /\ settings.hasPubs /\ ~pybtex) =>
        /\ Len(log) = 1
        /\ context = InitialContext(settings)

\* C4 as stated: after add_publications returns, every configured source with
\* a valid file has an entry with as many records as the file has entries,
\* whether or not another source (earlier or later) has a malformed file.
C4_EveryValidSourcePublished ==
    (Returned /\ settings.hasPubs /\ pybtex) =>
        \A i \in 1..Len(settings.refs) :
            LET rid == settings.refs[i].rid
            IN  disk[rid].ok =>
                    /\ rid \in DOMAIN Published
                    /\ Len(Published[rid].data) = Len(disk[rid].entries)

\* C4 amended: after add_publications returns (pybtex imported), every source
\* with a valid file that comes before the first malformed file in iteration
\* order has an entry with as many records as its file has entries; the first
\* malformed file ends the loop, so no source at or after it has an entry.
C4_ValidSourcesBeforeFirstFailurePublished ==
    (Returned /\ settings.hasPubs /\ pybtex) =>
        \A i \in 1..Len(settings.refs) :
            LET rid == settings.refs[i].rid
            IN  IF ParsesUpTo(i)
                THEN /\ rid \in DOMAIN Published
                     /\ Len(Published[rid].data) = Len(disk[rid].entries)
                ELSE rid \notin DOMAIN Published

\* C4 witness: the invocation returned with a first source of two entries
\* published and a later source whose file did not parse.
C4_Witness ==
    /\ Returned /\ pybtex /\ ParseFailed
    /\ Len(settings.refs) >= 2
    /\ RidOf(1) \in DOMAIN Published
    /\ Len(Published[RidOf(1)].data) = 2

\* the value an option resolves to by the documentation: its configured value,
\* or the documented default
Documented(rid, name, default) ==
    IF name \in DOMAIN RefOf(rid).opts THEN RefOf(rid).opts[name] ELSE default

\* the citation text of a record before highlighting
PlainText(rid, key) ==
    Render([Parsed(rid, key) EXCEPT
               !.fields = Pop(@, {"pdf", "slides", "poster", "tags", "supplements",
                                  "doi", "url"})])

\* the year a record is sorted by: 9901 under review, 9900 in press
SentinelYear(pub) ==
    IF pub.year = UnderReview THEN 9901
    ELSE IF pub.year = InPress THEN 9900
    ELSE DecimalValue(pub.year)

\* data is in non-increasing year order and records of one year keep the
\* order of the file (the type plays no part)
OrderedByYearOnly(rid, data) ==
    \A i, j \in 1..Len(data) :
        i < j =>
            /\ SentinelYear(data[i]) >= SentinelYear(data[j])
            /\ SentinelYear(data[i]) = SentinelYear(data[j]) =>
                   PlaceOf(rid, data[i].key) < PlaceOf(rid, data[j].key)

\* data is in non-increasing year order and records of one year are in
\* non-decreasing order of their type
OrderedByYearThenType(data) ==
    \A i, j \in 1..Len(data) :
        i < j =>
            /\ SentinelYear(data[i]) >= SentinelYear(data[j])
            /\ SentinelYear(data[i]) = SentinelYear(data[j]) =>
                   ~StrLess(data[j].type, data[i].type)

\* C8: every optional field absent from a source's configuration resolves to
\* its documented default (header, split, split_link, bottom_link True,
\* all_bibtex False, group_type off: sorted by year only, highlight empty:
\* citation text unchanged), a field that is present is used with its value,
\* and the metadata published for the source equals the resolved values.
C8_OptionsResolveToDefaults ==
    \A rid \in DOMAIN Published :
        LET e == Published[rid]
        IN  /\ e.header = Documented(rid, "header", TRUE)
            /\ e.split = Documented(rid, "split", TRUE)
            /\ e.split_link = Documented(rid, "split_link", TRUE)
            /\ e.bottom_link = Documented(rid, "bottom_link", TRUE)
            /\ e.all_bibtex = Documented(rid, "all_bibtex", FALSE)
            /\ IF Documented(rid, "group_type", FALSE)
               THEN OrderedByYearThenType(e.data)
               ELSE OrderedByYearOnly(rid, e.data)
            /\ \A i \in 1..Len(e.data) :
                  e.data[i].text =
                      Highlight(PlainText(rid, e.data[i].key),
                                Documented(rid, "highlight", <<>>))

\* C8 witness: a source configured with no optional field has been published
\* with both of its records.
C8_Witness ==
    /\ Returned
    /\ Len(settings.refs) = 1
    /\ settings.refs[1].opts = <<>>
    /\ RidOf(1) \in DOMAIN Published
    /\ Len(Published[RidOf(1)].data) = 2

\* the source whose records the local list `publications` holds, once published
LastPublished == settings.refs[idx - 1].rid

JustPublished == pc \in {"loop", "returned"} /\ idx > 1

\* a decimal integer in 0..9899, "in press" or "under review"
AllowedYear(y) ==
    \/ y = InPress
    \/ y = UnderReview
    \/ /\ y # <<>>
       /\ \A i \in 1..Len(y) : IsDigit(y[i])
       /\ DecimalValue(y) <= 9899

\* 0 under review, 1 in press, 2 a concrete year
Tier(pub) == IF pub.year = UnderReview THEN 0 ELSE IF pub.year = InPress THEN 1 ELSE 2

Count(seq, x) == Cardinality({i \in 1..Len(seq) : seq[i] = x})

IsPermutation(a, b) ==
    /\ Len(a) = Len(b)
    /\ \A i \in 1..Len(a) : Count(a, a[i]) = Count(b, a[i])

\* C5: with grouping off and every year a decimal integer in 0..9899, "in
\* press" or "under review", the published list is a permutation of the
\* transformed records with every "under review" record before every "in
\* press" record, those before every concrete year, and the concrete years in
\* non-increasing numeric order.
C5_SortedByYearWithSentinels ==
    (/\ JustPublished
     /\ ~Documented(LastPublished, "group_type", FALSE)
     /\ \A i \in 1..Len(publications) : AllowedYear(publications[i].year)) =>
        LET data == Published[LastPublished].data
        IN  /\ IsPermutation(data, publications)
            /\ \A i, j \in 1..Len(data) :
                  i < j =>
                      /\ Tier(data[i]) <= Tier(data[j])
                      /\ (Tier(data[i]) = 2 /\ Tier(data[j]) = 2) =>
                             DecimalValue(data[i].year) >= DecimalValue(data[j].year)

\* C5 witness: three records, one under review, one in press and one of a
\* concrete year, were published with grouping off in another order than they
\* were transformed in.
C5_Witness ==
    /\ Returned /\ idx > 1
    /\ ~Documented(LastPublished, "group_type", FALSE)
    /\ Len(publications) = 3
    /\ \A i \in 1..3 : AllowedYear(publications[i].year)
    /\ {Tier(publications[i]) : i \in 1..3} = {0, 1, 2}
    /\ Published[LastPublished].data # publications

\* the records of one type are contiguous in data
TypesContiguous(data) ==
    \A i, j, k \in 1..Len(data) :
        (i < k /\ k < j /\ data[i].type = data[j].type) => data[k].type = data[i].type

\* C6 as stated: with group_type enabled, all records of the same entry type
\* are contiguous in the published list and within each type the records are
\* in non-increasing order of the sentinel-mapped year.
C6_GroupedByType ==
    \A rid \in DOMAIN Published :
        Documented(rid, "group_type", FALSE) =>
            LET data == Published[rid].data
            IN  /\ TypesContiguous(data)
                /\ \A i, j \in 1..Len(data) :
                      (i < j /\ data[i].type = data[j].type) =>
                          SentinelYear(data[i]) >= SentinelYear(data[j])

\* C6 amended: with group_type enabled, the published list is in non-increasing
\* order of the sentinel-mapped year, and the records of one year are grouped
\* by entry type, in ascending order of the type; records of one type are
\* contiguous within a year, not across years.
C6_GroupedByTypeWithinYear ==
    \A rid \in DOMAIN Published :
        Documented(rid, "group_type", FALSE) => OrderedByYearThenType(Published[rid].data)

\* C6 witness: with group_type enabled three records were published, the
\* second of another type than the first and the third, which share a type.
C6_Witness ==
    /\ Returned
    /\ RidOf(1) \in DOMAIN Published
    /\ Documented(RidOf(1), "group_type", FALSE)
    /\ Len(Published[RidOf(1)].data) = 3
    /\ Published[RidOf(1)].data[1].type = Published[RidOf(1)].data[3].type
    /\ Published[RidOf(1)].data[1].type # Published[RidOf(1)].data[2].type

\* C7: for every published record, the bibtex text is written from a field set
\* with none of pdf, slides, poster, tags, supplements, the citation text is
\* formatted from a field set with, in addition, neither doi nor url, and the
\* record's pdf, slides, poster, doi, url, tags and supplements carry the
\* values the entry had before the fields were removed.
C7_StrippedFieldsDoNotLeak ==
    \A rid \in DOMAIN Published :
        \A i \in 1..Len(Published[rid].data) :
            LET r      == Published[rid].data[i]
                before == Parsed(rid, r.key).fields
            IN  /\ (DOMAIN r.bibtex.fields) \cap
                       {"pdf", "slides", "poster", "tags", "supplements"} = {}
                /\ rendered_from[<<rid, r.key>>] \cap
                       {"pdf", "slides", "poster", "tags", "supplements", "doi", "url"} = {}
                /\ \A n \in {"pdf", "slides", "poster", "doi", "url"} :
                       r[n] = IF n \in DOMAIN before THEN before[n] ELSE None
                /\ r.tags = TagList(Get(before, "tags"))
                /\ r.supplements = TagList(Get(before, "supplements"))

\* C7 witness: a record was published whose entry had all seven of the fields.
C7_Witness ==
    /\ Returned
    /\ \E rid \in DOMAIN Published :
          \E i \in 1..Len(Published[rid].data) :
             {"pdf", "slides", "poster", "tags", "supplements", "doi", "url"}
                 \subseteq DOMAIN Parsed(rid, Published[rid].data[i].key).fields

\* C10: transforming an entry does not change the parsed entry set: while a
\* source's entries are transformed, every entry of bibdata_all still has the
\* fields it had right after parsing.
C10_ParsedEntriesUnchanged ==
    pc = "entries" => bibdata_all = disk[ThisRef.rid].entries

\* where each character of the plain text is in the published text, the markup
\* skipped; 0 from the first character that is not found
RECURSIVE PlacesFrom(_, _, _, _)
PlacesFrom(P, R, p, i) ==
    IF i > Len(R) THEN <<>>
    ELSE IF p > Len(P) THEN [k \in 1..(Len(R) - i + 1) |-> 0]
    ELSE IF StartsAt(P, p, StrongOpen) THEN PlacesFrom(P, R, p + Len(StrongOpen), i)
    ELSE IF StartsAt(P, p, StrongClose) THEN PlacesFrom(P, R, p + Len(StrongClose), i)
    ELSE IF P[p] = R[i] THEN <<p>> \o PlacesFrom(P, R, p + 1, i + 1)
    ELSE [k \in 1..(Len(R) - i + 1) |-> 0]

\* the occurrence of term t at place i of the plain text R stands in the
\* published text P as <strong>t</strong>
Wrapped(P, R, t, i) ==
    LET m == PlacesFrom(P, R, 1, 1)
    IN  /\ m[i] > Len(StrongOpen)
        /\ \A k \in 0..(Len(t) - 1) : m[i + k] = m[i] + k
        /\ StartsAt(P, m[i] - Len(StrongOpen), StrongOpen)
        /\ StartsAt(P, m[i] + Len(t), StrongClose)

Occurrences(R, t) == {i \in 1..Len(R) : StartsAt(R, i, t)}

\* the occurrences a scan from the left finds, each starting after the one before
RECURSIVE ScanFrom(_, _, _)
ScanFrom(R, t, i) ==
    IF i > Len(R) THEN {}
    ELSE IF StartsAt(R, i, t) THEN {i} \cup ScanFrom(R, t, i + Len(t))
    ELSE ScanFrom(R, t, i + 1)

CharsOf(t) == {t[i] : i \in 1..Len(t)}

\* a single term, or terms that share no character with one another or with
\* the markup
Independent(hs) ==
    \/ Len(hs) = 1
    \/ /\ \A a, b \in 1..Len(hs) : a # b => CharsOf(hs[a]) \cap CharsOf(hs[b]) = {}
       /\ \A a \in 1..Len(hs) : CharsOf(hs[a]) \cap CharsOf(StrongOpen \o StrongClose) = {}

\* C9 as stated: for every list of highlight terms, overlapping ones included,
\* each literal occurrence of each term in the rendered citation text is
\* wrapped in <strong>...</strong> in the published text.
C9_EveryOccurrenceWrapped ==
    \A rid \in DOMAIN Published :
        \A i \in 1..Len(Published[rid].data) :
            LET r  == Published[rid].data[i]
                hs == Documented(rid, "highlight", <<>>)
            IN  \A h \in 1..Len(hs) :
                    \A o \in Occurrences(PlainText(rid, r.key), hs[h]) :
                        Wrapped(r.text, PlainText(rid, r.key), hs[h], o)

\* C9 amended: for a list of one non-empty term, or of non-empty terms that
\* share no character with one another or with the markup, each occurrence of
\* each term that a left-to-right scan of the rendered citation text finds (an
\* occurrence starts after the end of the one found before it) is wrapped in
\* <strong>...</strong> in the published text.  Terms are replaced one after
\* another in the text the earlier ones produced, so overlapping occurrences
\* and terms that overlap, contain one another or meet the markup are not all
\* wrapped.
C9_ScannedOccurrencesWrapped ==
    \A rid \in DOMAIN Published :
        \A i \in 1..Len(Published[rid].data) :
            LET r  == Published[rid].data[i]
                hs == Documented(rid, "highlight", <<>>)
            IN  (Independent(hs) /\ \A h \in 1..Len(hs) : hs[h] # <<>>) =>
                    \A h \in 1..Len(hs) :
                        \A o \in ScanFrom(PlainText(rid, r.key), hs[h], 1) :
                            Wrapped(r.text, PlainText(rid, r.key), hs[h], o)

\* C9 witness: a record was published for two terms without a common
\* character, one of them occurring twice in its citation text.
C9_Witness ==
    /\ Returned
    /\ RidOf(1) \in DOMAIN Published
    /\ LET hs == Documented(RidOf(1), "highlight", <<>>)
           d  == Published[RidOf(1)].data
       IN  /\ Len(hs) = 2 /\ Independent(hs)
           /\ Len(d) = 1
           /\ Cardinality(ScanFrom(PlainText(RidOf(1), d[1].key), hs[1], 1)) = 2
           /\ Cardinality(ScanFrom(PlainText(RidOf(1), d[1].key), hs[2], 1)) = 1

====
